---- MODULE Spec2Model ----
(***************************************************************************)
(* A model of the anchor survey program (survey/survey.py and the          *)
(* run_survey pipeline of gui/survey_gui.py).                              *)
(*                                                                         *)
(* The program computes in float64.  The model computes in fixed point:    *)
(* every quantity is an integer count of a unit (1e-7 degree, 1/M metre,   *)
(* 1e-10 radian, ...), every product and quotient is formed exactly in     *)
(* multi-limb arithmetic and then rounded to the nearest unit, which is    *)
(* the model's counterpart of one float rounding.  The not-a-number value  *)
(* of float64 is kept as a value of its own (NaN).                         *)
(***************************************************************************)
EXTENDS Integers, Sequences, FiniteSets, TLC

(***************************************************************************)
(* Multi-limb naturals: a magnitude is a little-endian sequence of limbs   *)
(* in base Base with no leading zero limb (zero is the empty sequence).    *)
(***************************************************************************)
Base == 10^4

Abs(n) == IF n < 0 THEN 0 - n ELSE n

Sgn(n) == IF n < 0 THEN 0 - 1 ELSE IF n = 0 THEN 0 ELSE 1

RECURSIVE NatToMag(_)
NatToMag(n) == IF n = 0 THEN <<>> ELSE <<n % Base>> \o NatToMag(n \div Base)

RECURSIVE MagToNat(_)
MagToNat(m) == IF m = <<>> THEN 0 ELSE Head(m) + Base * MagToNat(Tail(m))

RECURSIVE MagAddC(_, _, _)
MagAddC(a, b, c) ==
    IF a = <<>> /\ b = <<>>
    THEN (IF c = 0 THEN <<>> ELSE <<c>>)
    ELSE LET x == IF a = <<>> THEN 0 ELSE Head(a)
             y == IF b = <<>> THEN 0 ELSE Head(b)
             s == x + y + c
         IN  <<s % Base>> \o MagAddC(IF a = <<>> THEN a ELSE Tail(a),
                                     IF b = <<>> THEN b ELSE Tail(b),
                                     s \div Base)

MagAdd(a, b) == MagAddC(a, b, 0)

RECURSIVE MagStrip(_)
MagStrip(m) ==
    IF m = <<>> THEN m
    ELSE IF m[Len(m)] = 0 THEN MagStrip(SubSeq(m, 1, Len(m) - 1))
    ELSE m

\* Compare from the most significant limb down: -1, 0 or 1.
RECURSIVE MagCmpAt(_, _, _)
MagCmpAt(a, b, i) ==
    IF i = 0 THEN 0
    ELSE IF a[i] < b[i] THEN 0 - 1
    ELSE IF a[i] > b[i] THEN 1
    ELSE MagCmpAt(a, b, i - 1)

MagCmp(a, b) ==
    IF Len(a) < Len(b) THEN 0 - 1
    ELSE IF Len(a) > Len(b) THEN 1
    ELSE MagCmpAt(a, b, Len(a))

\* a - b for a >= b.
RECURSIVE MagSubB(_, _, _)
MagSubB(a, b, brw) ==
    IF a = <<>> THEN <<>>
    ELSE LET y == IF b = <<>> THEN 0 ELSE Head(b)
             s == Head(a) - y - brw
         IN  <<(s + Base) % Base>> \o MagSubB(Tail(a),
                                              IF b = <<>> THEN b ELSE Tail(b),
                                              IF s < 0 THEN 1 ELSE 0)

MagSub(a, b) == MagStrip(MagSubB(a, b, 0))

\* a * k for one limb k.
RECURSIVE MagMulLimbC(_, _, _)
MagMulLimbC(a, k, c) ==
    IF a = <<>>
    THEN (IF c = 0 THEN <<>> ELSE <<c>>)
    ELSE LET s == Head(a) * k + c
         IN  <<s % Base>> \o MagMulLimbC(Tail(a), k, s \div Base)

MagMulLimb(a, k) == IF k = 0 THEN <<>> ELSE MagMulLimbC(a, k, 0)

MagShift(m) == IF m = <<>> THEN m ELSE <<0>> \o m

RECURSIVE MagMul(_, _)
MagMul(a, b) ==
    IF a = <<>> \/ b = <<>> THEN <<>>
    ELSE MagAdd(MagMulLimb(a, Head(b)), MagShift(MagMul(a, Tail(b))))

\* The largest integer of the model checker, 2^31 - 1.
MaxInt == (2^30 - 1) * 2 + 1

\* The largest q in lo..hi with q * d <= n, given lo * d <= n.
RECURSIVE MagDivSearch(_, _, _, _)
MagDivSearch(n, d, lo, hi) ==
    IF lo = hi THEN lo
    ELSE LET mid == lo + ((hi - lo) \div 2) + ((hi - lo) % 2)
         IN  IF MagCmp(MagMul(d, NatToMag(mid)), n) <= 0
             THEN MagDivSearch(n, d, mid, hi)
             ELSE MagDivSearch(n, d, lo, mid - 1)

\* An upper bound of the quotient from the limb counts.
RECURSIVE QuotientCap(_)
QuotientCap(k) ==
    IF k <= 0 THEN 0
    ELSE IF k >= 3 THEN MaxInt
    ELSE Base ^ k - 1

\* 2^31 as a magnitude: a quotient must stay below it.
IntLimit == <<3648, 4748, 21>>

\* floor(n / d) for d > 0.  A quotient of 2^31 or more has no value here
\* (the choice from the empty set stops the evaluation).
MagDivFloor(n, d) ==
    IF MagCmp(n, MagMul(d, IntLimit)) < 0
    THEN MagDivSearch(n, d, 0, QuotientCap(Len(n) - Len(d) + 1))
    ELSE CHOOSE q \in {} : TRUE

\* floor(m / k) for one limb k > 0, as a magnitude: long division from the
\* most significant limb, i the limb in hand and r the running remainder.
RECURSIVE MagDivLimbAt(_, _, _, _)
MagDivLimbAt(m, k, i, r) ==
    IF i = 0 THEN <<>>
    ELSE LET cur == r * Base + m[i]
         IN  MagDivLimbAt(m, k, i - 1, cur % k) \o <<cur \div k>>

MagDivLimb(m, k) == MagStrip(MagDivLimbAt(m, k, Len(m), 0))

\* floor(sqrt(n)).
RECURSIVE MagSqrtSearch(_, _, _)
MagSqrtSearch(n, lo, hi) ==
    IF lo = hi THEN lo
    ELSE LET mid == lo + ((hi - lo) \div 2) + ((hi - lo) % 2)
             mm  == NatToMag(mid)
         IN  IF MagCmp(MagMul(mm, mm), n) <= 0
             THEN MagSqrtSearch(n, mid, hi)
             ELSE MagSqrtSearch(n, lo, mid - 1)

MagSqrtFloor(n) ==
    MagSqrtSearch(n, 0, QuotientCap((Len(n) + 1) \div 2))

(***************************************************************************)
(* Signed multi-limb integers, and the rounded operations built on them.   *)
(***************************************************************************)
Big(n) == [s |-> Sgn(n), m |-> NatToMag(Abs(n))]

BigNeg(a) == [s |-> 0 - a.s, m |-> a.m]

BigAdd(a, b) ==
    IF a.s = 0 THEN b
    ELSE IF b.s = 0 THEN a
    ELSE IF a.s = b.s THEN [s |-> a.s, m |-> MagAdd(a.m, b.m)]
    ELSE LET c == MagCmp(a.m, b.m)
         IN  IF c = 0 THEN [s |-> 0, m |-> <<>>]
             ELSE IF c > 0 THEN [s |-> a.s, m |-> MagSub(a.m, b.m)]
             ELSE [s |-> b.s, m |-> MagSub(b.m, a.m)]

BigSub(a, b) == BigAdd(a, BigNeg(b))

BigMul(a, b) == [s |-> a.s * b.s, m |-> MagMul(a.m, b.m)]

BigLess(a, b) == BigSub(a, b).s < 0

\* n / d rounded to the nearest integer, halves away from zero.
BigDivRound(n, d) ==
    LET two == <<2>>
        q   == MagDivFloor(MagAdd(MagMul(n.m, two), d.m), MagMul(d.m, two))
    IN  n.s * d.s * q

\* sqrt(n) rounded to the nearest integer, for n >= 0.
BigSqrtRound(n) ==
    LET s   == MagSqrtFloor(n.m)
        sm  == NatToMag(s)
        rem == MagSub(n.m, MagMul(sm, sm))
    IN  IF MagCmp(rem, sm) > 0 THEN s + 1 ELSE s

\* a * b / c rounded to the nearest integer.
MulDiv(a, b, c) == BigDivRound(BigMul(Big(a), Big(b)), Big(c))

\* a / b rounded to the nearest integer.
RoundDiv(a, b) == BigDivRound(Big(a), Big(b))

(***************************************************************************)
(* Units.  An angle is a count of 1e-7 degree, a local coordinate or a     *)
(* range a count of 1/M metre, an angle in radians a count of 1e-10        *)
(* radian, minutes and seconds of arc counts of 1/1000, a travel time a    *)
(* count of 1e-4 second.                                                   *)
(***************************************************************************)
Deg == 10^7

M == 5 * 10^3

\* Units of 1e-10 radian in one radian, over units 1/M metre in one metre
\* (10^10 / M, formed without leaving the integers of the model checker).
RadPerXY == (10^5 \div M) * 10^5

Milli == 10^3

TimeUnit == 10^4

\* The float64 not-a-number, and a number.
NaN == [nan |-> TRUE, v |-> 0]

Num(v) == [nan |-> FALSE, v |-> v]

(***************************************************************************)
(* dms_to_dd: degrees in whole degrees, minutes and seconds in 1/1000;     *)
(* direction "None" is the omitted argument.                               *)
(***************************************************************************)
DmsDirection(degrees, direction) ==
    IF direction = "None"
    THEN (IF degrees < 0 THEN "S" ELSE "W")
    ELSE direction

DmsToDd(degrees, minutes, seconds, direction) ==
    LET dir  == DmsDirection(degrees, direction)
        dd   == degrees * Deg + MulDiv(minutes, Deg, 60 * Milli)
                              + MulDiv(seconds, Deg, 3600 * Milli)
        mask == dir \in {"S", "W"}
    IN  IF mask THEN 0 - dd ELSE dd

(***************************************************************************)
(* latlon_to_xy and xy_to_latlon.                                          *)
(***************************************************************************)
R == 6371000

\* pi in units of 1e-8, as np.radians and np.degrees use it.
PiE8 == 314159265

\* np.radians: 1e-7 degree to 1e-10 radian.
Radians(a) == MulDiv(a, PiE8, 18 * 10^6)

\* np.degrees: 1e-10 radian to 1e-7 degree.
Degrees(r) == MulDiv(r, 18 * 10^6, PiE8)

\* np.cos(np.radians(ref_lat)) in units of 1e-9, for the reference
\* latitudes of the model (the library's value, rounded).
CosRefLat(ref_lat) ==
    CASE ref_lat = 0 -> 1000000000
      [] ref_lat = 300000000 -> 866025404
      [] ref_lat = 359511000 -> 809518354
      [] ref_lat = 359511333 -> 809518013
      [] ref_lat = 0 - 450000000 -> 707106781
      [] ref_lat = 600000000 -> 500000000
      [] ref_lat = 890000000 -> 17452406

LatLonToXY(lat, lon, ref_lat, ref_lon) ==
    LET dlat == Radians(lat - ref_lat)
        dlon == Radians(lon - ref_lon)
        x    == MulDiv(MulDiv(dlon, R, RadPerXY), CosRefLat(ref_lat), 10^9)
        y    == MulDiv(dlat, R, RadPerXY)
    IN  <<x, y>>

\* An inverse that leaves out cos(ref_lat): dlon = x / R.
XYToLatLonNoCos(x, y, ref_lat, ref_lon) ==
    <<ref_lat + Degrees(MulDiv(y, RadPerXY, R)),
      ref_lon + Degrees(MulDiv(x, RadPerXY, R))>>

XYToLatLon(x, y, ref_lat, ref_lon) ==
    LET dlat == MulDiv(y, RadPerXY, R)
        \* R * cos(ref_lat) in centimetres
        rcos == MulDiv(R, CosRefLat(ref_lat), 10^7)
        dlon == MulDiv(x, (RadPerXY) * 100, rcos)
        lat  == ref_lat + Degrees(dlat)
        lon  == ref_lon + Degrees(dlon)
    IN  <<lat, lon>>

(***************************************************************************)
(* calculate_anchor_position: one pass of the loop body.                   *)
(***************************************************************************)
Sq(a) == BigMul(Big(a), Big(a))

RECURSIVE BigSum(_)
BigSum(s) == IF s = <<>> THEN Big(0) ELSE BigAdd(Head(s), BigSum(Tail(s)))

RECURSIVE IntSum(_)
IntSum(s) == IF s = <<>> THEN 0 ELSE Head(s) + IntSum(Tail(s))

Mean(s) == RoundDiv(IntSum(s), Len(s))

\* Row i of A: [2 * (x - xi), 2 * (y - yi)].
RowA(x, y, xi, yi, i) == <<2 * (x[i] - xi), 2 * (y[i] - yi)>>

\* A right-hand side with the range not squared.
RhsBLinearRange(x, y, d, xi, yi, i) ==
    BigSub(BigAdd(Sq(x[i] - xi), Sq(y[i] - yi)), Big(d[i]))

\* b[i] = (x - xi)**2 + (y - yi)**2 - d**2.
RhsB(x, y, d, xi, yi, i) ==
    BigSub(BigAdd(Sq(x[i] - xi), Sq(y[i] - yi)), Sq(d[i]))

\* np.linalg.lstsq(A, b, rcond=None)[0] for an N x 2 matrix A: the
\* least-squares solution, and the minimum-norm one when A is rank
\* deficient, each component rounded to the unit.  A is a sequence of rows
\* of integers, b a sequence of multi-limb integers.
Lstsq(A, b) ==
    LET I   == 1 .. Len(A)
        n00 == BigSum([i \in I |-> Sq(A[i][1])])
        n01 == BigSum([i \in I |-> BigMul(Big(A[i][1]), Big(A[i][2]))])
        n11 == BigSum([i \in I |-> Sq(A[i][2])])
        t0  == BigSum([i \in I |-> BigMul(Big(A[i][1]), b[i])])
        t1  == BigSum([i \in I |-> BigMul(Big(A[i][2]), b[i])])
        det == BigSub(BigMul(n00, n11), BigMul(n01, n01))
        tr  == BigAdd(n00, n11)
    IN  IF det.s # 0
        THEN <<BigDivRound(BigSub(BigMul(n11, t0), BigMul(n01, t1)), det),
               BigDivRound(BigSub(BigMul(n00, t1), BigMul(n01, t0)), det)>>
        ELSE IF tr.s # 0
        THEN <<BigDivRound(BigAdd(BigMul(n00, t0), BigMul(n01, t1)),
                           BigMul(tr, tr)),
               BigDivRound(BigAdd(BigMul(n01, t0), BigMul(n11, t1)),
                           BigMul(tr, tr))>>
        ELSE <<0, 0>>

\* The step of one pass for a finite estimate and finite ranges.
Step(x, y, d, xi, yi) ==
    LET I == 1 .. Len(x)
        A == [i \in I |-> RowA(x, y, xi, yi, i)]
        b == [i \in I |-> RhsB(x, y, d, xi, yi, i)]
    IN  Lstsq(A, b)

\* np.linalg.norm(xx) < tol, for a finite step.
NormBelow(step, tol) ==
    BigLess(BigAdd(Sq(step[1]), Sq(step[2])), Sq(tol))

(***************************************************************************)
(* rms_error and calculate_fallback, for finite arguments.                 *)
(***************************************************************************)
\* The result of rms_error is a count of 1/(M * RmsFine) metre.
RmsFine == 10^2

\* r = np.sqrt((x - xi)**2 + (y - yi)**2) at station i.
ModelRange(p, x, y, i) ==
    BigSqrtRound(BigAdd(Sq(x[i] - p[1]), Sq(y[i] - p[2])))

\* The sum of the residuals themselves, not of their squares.
SumResidual(p, x, y, dist) ==
    BigSum([i \in 1 .. Len(x) |-> Big(ModelRange(p, x, y, i) - dist[i])])

\* The sum over the stations of (r - dist)**2.
SumSqResidual(p, x, y, dist) ==
    BigSum([i \in 1 .. Len(x) |-> Sq(ModelRange(p, x, y, i) - dist[i])])

RmsError(p, x, y, dist) ==
    LET total == BigMul(SumSqResidual(p, x, y, dist), Sq(RmsFine))
        mean  == [s |-> IF total.s = 0 THEN 0 ELSE 1,
                  m |-> MagDivLimb(total.m, Len(x))]
    IN  BigSqrtRound(mean)

\* A distance that takes the northing difference from the eastings.
CalculateFallbackMixed(anchor_x, anchor_y, drop_x, drop_y) ==
    BigSqrtRound(BigAdd(Sq(anchor_x - drop_x), Sq(anchor_y - drop_x)))

CalculateFallback(anchor_x, anchor_y, drop_x, drop_y) ==
    BigSqrtRound(BigAdd(Sq(anchor_x - drop_x), Sq(anchor_y - drop_y)))

(***************************************************************************)
(* The state.  pc is the place of the running call, arg the arguments of   *)
(* the entry point, ret what a call returned and err the exception that    *)
(* ended the run.  x, y, d, tol, max_iter, xi, yi, xx and iteration are    *)
(* the parameters and locals of calculate_anchor_position; d, xi, yi and   *)
(* the components of xx are numbers or NaN; iteration is the empty         *)
(* sequence while the loop variable is unbound.  npass (the passes begun)  *)
(* and conv (for each finished pass, whether its step was below tol) are   *)
(* history variables.                                                      *)
(***************************************************************************)
VARIABLES pc, arg, ret, err, x, y, d, tol, max_iter, xi, yi, xx, iteration,
          npass, conv

vars == <<pc, arg, ret, err, x, y, d, tol, max_iter, xi, yi, xx, iteration,
          npass, conv>>

solverVars == <<x, y, d, tol, max_iter, xi, yi, xx, iteration, npass, conv>>

\* No call of calculate_anchor_position has been made.
NoSolver ==
    /\ x = <<>> /\ y = <<>> /\ d = <<>>
    /\ tol = 0 /\ max_iter = 0
    /\ xi = Num(0) /\ yi = Num(0) /\ xx = <<Num(0), Num(0)>>
    /\ iteration = <<>> /\ npass = 0 /\ conv = <<>>

\* The defaults of calculate_anchor_position: tol=0.01, max_iter=100.
DefaultTol == M \div 100

DefaultMaxIter == 100

(***************************************************************************)
(* dms_to_dd, called on its own.                                           *)
(***************************************************************************)
DmsDegrees == {0 - 75, 0 - 35, 0, 35, 75}

DmsMinutes == {0, 7000, 57000, 57068}

DmsSeconds == {0, 4000, 49000}

DmsDirections == {"N", "S", "E", "W", "None"}

InitDms ==
    /\ pc = "call"
    /\ arg \in [fn : {"dms_to_dd"}, degrees : DmsDegrees,
                minutes : DmsMinutes, seconds : DmsSeconds,
                direction : DmsDirections]
    /\ ret = <<>>
    /\ err = "none"
    /\ NoSolver

DmsToDdCall ==
    /\ pc = "call"
    /\ arg.fn = "dms_to_dd"
    /\ ret' = DmsToDd(arg.degrees, arg.minutes, arg.seconds, arg.direction)
    /\ pc' = "returned"
    /\ UNCHANGED <<arg, err, solverVars>>

NextDms == DmsToDdCall

SpecDms == InitDms /\ [][NextDms]_vars

(***************************************************************************)
(* latlon_to_xy followed by xy_to_latlon with the same reference.          *)
(***************************************************************************)
RefLats == {0, 300000000, 359511000, 359511333, 0 - 450000000, 600000000,
            890000000}

RefLons == {0 - 751303000, 0, 1790000000}

\* The point's offsets from the reference, up to OffsetMax degrees.
OffsetMax == 2

Offsets == {0 - OffsetMax * Deg, 0 - 12345678, 0 - 1, 0, 3333333,
            OffsetMax * Deg}

InitProj ==
    /\ pc = "call"
    /\ \E rlat \in RefLats, rlon \in RefLons, olat \in Offsets, olon \in Offsets :
          arg = [fn |-> "latlon_to_xy", lat |-> rlat + olat, lon |-> rlon + olon,
                 ref_lat |-> rlat, ref_lon |-> rlon]
    /\ ret = <<>>
    /\ err = "none"
    /\ NoSolver

LatLonToXYCall ==
    /\ pc = "call"
    /\ arg.fn = "latlon_to_xy"
    /\ ret' = LatLonToXY(arg.lat, arg.lon, arg.ref_lat, arg.ref_lon)
    /\ pc' = "projected"
    /\ UNCHANGED <<arg, err, solverVars>>

XYToLatLonCall ==
    /\ pc = "projected"
    /\ ret' = XYToLatLon(ret[1], ret[2], arg.ref_lat, arg.ref_lon)
    /\ pc' = "returned"
    /\ UNCHANGED <<arg, err, solverVars>>

NextProj == LatLonToXYCall \/ XYToLatLonCall

SpecProj == InitProj /\ [][NextProj]_vars

(***************************************************************************)
(* rms_error and calculate_fallback, called on their own.  Coordinates     *)
(* and ranges are whole metres here.                                       *)
(***************************************************************************)
QPoints == {<<0, 0>>, <<3, 4>>, <<0 - 6, 8>>}

QStations == {<<<<0, 0>>, <<1, 0>>>>,
              <<<<0, 0>>, <<6, 8>>, <<0 - 3, 0 - 4>>>>}

QDist == {0, 1, 5, 10}

Metres(s) == [i \in 1 .. Len(s) |-> s[i] * M]

Xs(st) == [i \in 1 .. Len(st) |-> st[i][1] * M]

Ys(st) == [i \in 1 .. Len(st) |-> st[i][2] * M]

InitQuality ==
    /\ pc = "call"
    /\ \/ \E p \in QPoints, st \in QStations :
             \E dist \in [1 .. Len(st) -> QDist] :
                arg = [fn |-> "rms_error", p |-> Metres(p), x |-> Xs(st),
                       y |-> Ys(st), dist |-> Metres(dist)]
       \/ \E a \in QPoints \cup {<<3, 5>>}, b \in QPoints \cup {<<3, 5>>} :
             arg = [fn |-> "calculate_fallback", anchor |-> Metres(a),
                    drop |-> Metres(b)]
       \/ arg = [fn |-> "calculate_fallback",
                 anchor |-> <<359515000, 0 - 751301000>>,
                 drop |-> <<359511000, 0 - 751303000>>]
       \/ arg = [fn |-> "calculate_fallback", anchor |-> <<1, 0>>,
                 drop |-> <<0, 0>>]
    /\ ret = <<>>
    /\ err = "none"
    /\ NoSolver

RmsErrorCall ==
    /\ pc = "call"
    /\ arg.fn = "rms_error"
    /\ ret' = RmsError(arg.p, arg.x, arg.y, arg.dist)
    /\ pc' = "returned"
    /\ UNCHANGED <<arg, err, solverVars>>

\* calculate_fallback(anchor, drop)
CalculateFallbackCall ==
    /\ pc = "call"
    /\ arg.fn = "calculate_fallback"
    /\ ret' = <<CalculateFallback(arg.anchor[1], arg.anchor[2],
                                  arg.drop[1], arg.drop[2])>>
    /\ pc' = "called_once"
    /\ UNCHANGED <<arg, err, solverVars>>

\* ... and then calculate_fallback(drop, anchor)
CalculateFallbackSwappedCall ==
    /\ pc = "called_once"
    /\ ret' = Append(ret, CalculateFallback(arg.drop[1], arg.drop[2],
                                            arg.anchor[1], arg.anchor[2]))
    /\ pc' = "returned"
    /\ UNCHANGED <<arg, err, solverVars>>

NextQuality ==
    RmsErrorCall \/ CalculateFallbackCall \/ CalculateFallbackSwappedCall

SpecQuality == InitQuality /\ [][NextQuality]_vars
(***************************************************************************)
(* calculate_anchor_position.                                              *)
(***************************************************************************)
HasNaN(ranges, ex, ey) ==
    ex.nan \/ ey.nan \/ \E i \in 1 .. Len(ranges) : ranges[i].nan

\* What np.linalg.lstsq can do on one pass.  With finite input it returns
\* the solution.  With a NaN in A or b the outcome is the library build's:
\* LAPACK's gelsd either fails to converge, and numpy raises LinAlgError,
\* or runs through, and every component of the solution is NaN.
LstsqOutcomes(ranges, ex, ey) ==
    IF HasNaN(ranges, ex, ey) THEN {"LinAlgError", "nan"} ELSE {"finite"}

Vals(s) == [i \in 1 .. Len(s) |-> s[i].v]

\* A loop variable that counts from one.
RangeItemFromOne(k) == k + 1

\* The value `for iteration in range(max_iter)` binds on the pass that
\* follows k finished passes.
RangeItem(k) == k

\* A loop without the break.
LoopContinuesNoBreak(converged, k, cap) == k < cap

\* Whether another pass follows one that ended with k passes done.
LoopContinues(converged, k, cap) == (~converged) /\ k < cap

\* Lines 127-130, and the loop's first test.
SolverEnter ==
    /\ pc = "solver_call"
    /\ xi' = Num(Mean(x))
    /\ yi' = Num(Mean(y))
    /\ xx' = <<Num(M), Num(M)>>
    /\ iteration' = <<>>
    /\ npass' = 0
    /\ conv' = <<>>
    /\ pc' = IF LoopContinues(FALSE, 0, max_iter) THEN "loop" ELSE "loop_exit"
    /\ UNCHANGED <<arg, ret, err, x, y, d, tol, max_iter>>

\* Lines 132-146: one pass of the loop.
SolverPass ==
    /\ pc = "loop"
    /\ iteration' = <<RangeItem(npass)>>
    /\ npass' = npass + 1
    /\ \E outcome \in LstsqOutcomes(d, xi, yi) :
          IF outcome = "LinAlgError"
          THEN /\ err' = "LinAlgError"
               /\ pc' = "raised"
               /\ UNCHANGED <<xi, yi, xx, conv>>
          ELSE \E step \in {IF outcome = "nan"
                            THEN <<NaN, NaN>>
                            ELSE LET s == Step(x, y, Vals(d), xi.v, yi.v)
                                 IN  <<Num(s[1]), Num(s[2])>>} :
               \* a comparison with NaN is false
               \E below \in {IF outcome = "nan"
                             THEN FALSE
                             ELSE NormBelow(Vals(step), tol)} :
                   /\ xx' = step
                   /\ xi' = IF step[1].nan THEN NaN ELSE Num(xi.v + step[1].v)
                   /\ yi' = IF step[2].nan THEN NaN ELSE Num(yi.v + step[2].v)
                   /\ conv' = Append(conv, below)
                   /\ pc' = IF LoopContinues(below, npass + 1, max_iter)
                            THEN "loop" ELSE "loop_exit"
                   /\ err' = err
    /\ UNCHANGED <<arg, ret, x, y, d, tol, max_iter>>

\* Line 148: `return xi, yi, iteration`.  Reading the loop variable when no
\* pass ever bound it raises UnboundLocalError.
SolverReturn ==
    /\ pc = "loop_exit"
    /\ IF iteration = <<>>
       THEN /\ err' = "UnboundLocalError"
            /\ pc' = "raised"
            /\ ret' = ret
       ELSE /\ ret' = [xi |-> xi, yi |-> yi, iteration |-> iteration[1]]
            /\ pc' = IF arg.fn = "calculate_anchor_position"
                     THEN "returned" ELSE "solved"
            /\ err' = err
    /\ UNCHANGED <<arg, solverVars>>

\* Station layouts in whole metres: the test's, a scalene triangle, three
\* collinear stations and a square of four.
Layouts ==
    {<<<<0, 0>>, <<100, 0>>, <<0, 100>>>>,
     <<<<0 - 50, 0 - 20>>, <<60, 10>>, <<0, 90>>>>,
     <<<<0, 0>>, <<50, 0>>, <<100, 0>>>>,
     <<<<0, 0>>, <<100, 0>>, <<0, 100>>, <<100, 100>>>>}

\* True anchor positions in whole metres.
Anchors == {<<50, 50>>, <<10, 120>>, <<0 - 40, 30>>, <<33, 34>>}

\* Errors added to the exact ranges, in whole metres, station by station.
Noises == {<<0, 0, 0, 0>>, <<1, 0, 0, 0>>, <<0 - 60, 0 - 60, 0 - 60, 0 - 60>>}

\* max_iter is 0 .. MaxIterSmall or the default.
MaxIterSmall == 3

MaxIters == (0 .. MaxIterSmall) \cup {DefaultMaxIter}

Tols == {DefaultTol, M}

\* The range of station i to the anchor, as the caller computes it:
\* np.sqrt((x - ax)**2 + (y - ay)**2), plus the error.
RangeTo(st, anchor, noise, i) ==
    BigSqrtRound(BigAdd(Sq((st[i][1] - anchor[1]) * M),
                        Sq((st[i][2] - anchor[2]) * M)))
      + noise[i] * M

InitSolver ==
    /\ pc = "solver_call"
    /\ \E st \in Layouts, anchor \in Anchors, noise \in Noises :
          /\ arg = [fn |-> "calculate_anchor_position", layout |-> st,
                    anchor |-> anchor, noise |-> noise]
          /\ x = Xs(st)
          /\ y = Ys(st)
          /\ d = [i \in 1 .. Len(st) |-> Num(RangeTo(st, anchor, noise, i))]
    /\ tol \in Tols
    /\ max_iter \in MaxIters
    /\ ret = <<>>
    /\ err = "none"
    /\ xi = Num(0) /\ yi = Num(0) /\ xx = <<Num(0), Num(0)>>
    /\ iteration = <<>> /\ npass = 0 /\ conv = <<>>

NextSolver == SolverEnter \/ SolverPass \/ SolverReturn

SpecSolver == InitSolver /\ [][NextSolver]_vars

\* The states in which NextSolver is enabled: the call has not ended.
SolverRunning == pc \in {"solver_call", "loop", "loop_exit"}

\* The interpreter runs the call to its end: weak fairness of NextSolver,
\* WF_vars(NextSolver), with ENABLED <<NextSolver>>_vars written out as
\* SolverRunning.
FairSolver ==
    SpecSolver /\ ([]<>(~SolverRunning) \/ []<><<NextSolver>>_vars)
(***************************************************************************)
(* A survey run: run_survey of the GUI, and the script of survey.py.       *)
(***************************************************************************)
\* The station files: rows of lat_deg, lat_min, lon_deg, lon_min (minutes
\* in 1/1000) and the travel time (in 1e-4 s).  The third station of
\* short.dat has a travel time of 0.02 s.
Files ==
    [name \in {"stations.dat", "four.dat", "short.dat"} |->
        CASE name = "stations.dat" ->
                <<<<35, 57168, 75, 7822, 2716>>,
                  <<35, 56988, 75, 7722, 2517>>,
                  <<35, 56988, 75, 7922, 2910>>>>
          [] name = "four.dat" ->
                <<<<35, 57168, 75, 7822, 2716>>,
                  <<35, 56988, 75, 7722, 2517>>,
                  <<35, 56988, 75, 7922, 2910>>,
                  <<35, 57068, 75, 7622, 3762>>>>
          [] name = "short.dat" ->
                <<<<35, 57168, 75, 7822, 2716>>,
                  <<35, 56988, 75, 7722, 2517>>,
                  <<35, 56988, 75, 7922, 200>>>>]

\* The stations' local coordinates: dms_to_dd with 'N' and 'W', then
\* latlon_to_xy about the reference.
StationXY(rows, ref_lat, ref_lon) ==
    [i \in 1 .. Len(rows) |->
        LatLonToXY(DmsToDd(rows[i][1], rows[i][2], 0, "N"),
                   DmsToDd(rows[i][3], rows[i][4], 0, "W"),
                   ref_lat, ref_lon)]

\* slant_range = (times / 2) * sound_speed, sound_speed in whole m/s.
SlantRange(time, sound_speed) == MulDiv(time, sound_speed * M, 2 * TimeUnit)

\* horizontal_range = np.sqrt(slant_range**2 - (drop_depth - trans_depth)**2):
\* np.sqrt of a negative number is NaN (and a RuntimeWarning, no exception).
HorizontalRange(slant, drop_depth, trans_depth) ==
    LET sq == BigSub(Sq(slant), Sq(drop_depth - trans_depth))
    IN  IF sq.s < 0 THEN NaN ELSE Num(BigSqrtRound(sq))

HorizontalRanges(rows, sound_speed, drop_depth, trans_depth) ==
    [i \in 1 .. Len(rows) |->
        HorizontalRange(SlantRange(rows[i][5], sound_speed),
                        drop_depth, trans_depth)]

\* The drop position the GUI's fields and the script's drop_data hold:
\* 35 57.068' N, 75 7.822' W, 36 m deep; the transducer at 5 m.
DropLat == DmsToDd(35, 57068, 0, "N")

DropLon == DmsToDd(75, 7822, 0, "W")

InitRun ==
    /\ pc = "call"
    /\ \/ arg \in [fn : {"run_survey"},
                   station_file : {"None", "missing.dat", "stations.dat",
                                   "four.dat", "short.dat"},
                   trans_depth : {5 * M, 0},
                   drop_lat_dd : {DropLat},
                   drop_lon_dd : {DropLon},
                   drop_depth : {36 * M, 250 * M},
                   sound_speed : {1500, 1450}]
       \/ arg \in [fn : {"main"},
                   station_file : {"missing.dat", "stations.dat", "four.dat",
                                   "short.dat"},
                   trans_depth : {5 * M},
                   drop_lat_dd : {DropLat},
                   drop_lon_dd : {DropLon},
                   drop_depth : {36 * M},
                   sound_speed : {1500}]
    /\ ret = <<>>
    /\ err = "none"
    /\ NoSolver

\* run_survey, lines 26-32.
RunOpen ==
    /\ pc = "call"
    /\ arg.fn = "run_survey"
    /\ IF arg.station_file = "None"
       THEN ret' = "Please select a .dat file." /\ pc' = "returned"
       ELSE IF arg.station_file \notin DOMAIN Files
       THEN ret' = "Error reading file" /\ pc' = "returned"
       ELSE ret' = ret /\ pc' = "loaded"
    /\ UNCHANGED <<arg, err, solverVars>>

\* The call of calculate_anchor_position(station_x, station_y,
\* horizontal_range) with the default tol and max_iter.
CallSolver(rows) ==
    LET xy == StationXY(rows, arg.drop_lat_dd, arg.drop_lon_dd)
    IN  /\ x' = [i \in 1 .. Len(rows) |-> xy[i][1]]
        /\ y' = [i \in 1 .. Len(rows) |-> xy[i][2]]
        /\ d' = HorizontalRanges(rows, arg.sound_speed, arg.drop_depth,
                                 arg.trans_depth)
        /\ tol' = DefaultTol
        /\ max_iter' = DefaultMaxIter
        /\ pc' = "solver_call"

\* run_survey, lines 34-52.
RunPrepare ==
    /\ pc = "loaded"
    /\ CallSolver(Files[arg.station_file])
    /\ UNCHANGED <<arg, ret, err, xi, yi, xx, iteration, npass, conv>>

\* survey.py, lines 169-204: pd.read_csv raises when there is no file.
MainPrepare ==
    /\ pc = "call"
    /\ arg.fn = "main"
    /\ IF arg.station_file \notin DOMAIN Files
       THEN /\ err' = "FileNotFoundError"
            /\ pc' = "raised"
            /\ UNCHANGED <<x, y, d, tol, max_iter>>
       ELSE /\ CallSolver(Files[arg.station_file])
            /\ err' = err
    /\ UNCHANGED <<arg, ret, xi, yi, xx, iteration, npass, conv>>

\* rms_error((station_x, station_y), anchor_x, anchor_y, horizontal_range):
\* the callers pass the stations as p and the anchor as x, y; the arrays
\* broadcast, so (x - xi)**2 + (y - yi)**2 is the same array either way.
RmsOfRun(anchor_x, anchor_y) ==
    IF HasNaN(d, anchor_x, anchor_y)
    THEN NaN
    ELSE Num(RmsError(<<anchor_x.v, anchor_y.v>>, x, y, Vals(d)))

\* xy_to_latlon(anchor_x, anchor_y, ref_lat, ref_lon)
LatLonOfRun(anchor_x, anchor_y) ==
    LET ll == XYToLatLon(anchor_x.v, anchor_y.v, arg.drop_lat_dd,
                         arg.drop_lon_dd)
    IN  <<IF anchor_y.nan THEN NaN ELSE Num(ll[1]),
          IF anchor_x.nan THEN NaN ELSE Num(ll[2])>>

\* run_survey, lines 53-86: the fallback is taken in local metres.
RunFinish ==
    /\ pc = "solved"
    /\ arg.fn = "run_survey"
    /\ LET ll   == LatLonOfRun(ret.xi, ret.yi)
           drop == LatLonToXY(arg.drop_lat_dd, arg.drop_lon_dd,
                              arg.drop_lat_dd, arg.drop_lon_dd)
       IN  ret' = [anchor_lat |-> ll[1],
                   anchor_lon |-> ll[2],
                   fallback |-> IF ret.xi.nan \/ ret.yi.nan THEN NaN
                                ELSE Num(CalculateFallback(ret.xi.v, ret.yi.v,
                                                           drop[1], drop[2])),
                   rms |-> RmsOfRun(ret.xi, ret.yi),
                   iterations |-> ret.iteration]
    /\ pc' = "returned"
    /\ UNCHANGED <<arg, err, solverVars>>

\* survey.py, lines 206-242: the fallback is taken between latitudes and
\* longitudes, in degrees.
MainFinish ==
    /\ pc = "solved"
    /\ arg.fn = "main"
    /\ LET ll == LatLonOfRun(ret.xi, ret.yi)
       IN  ret' = [anchor_lat |-> ll[1],
                   anchor_lon |-> ll[2],
                   fallback |-> IF ll[1].nan \/ ll[2].nan THEN NaN
                                ELSE Num(CalculateFallback(ll[1].v, ll[2].v,
                                                           arg.drop_lat_dd,
                                                           arg.drop_lon_dd)),
                   rms |-> RmsOfRun(ret.xi, ret.yi),
                   iterations |-> ret.iteration]
    /\ pc' = "returned"
    /\ UNCHANGED <<arg, err, solverVars>>

Next ==
    \/ RunOpen
    \/ RunPrepare
    \/ RunFinish
    \/ MainPrepare
    \/ MainFinish
    \/ SolverEnter
    \/ SolverPass
    \/ SolverReturn

Init == InitRun

Spec == Init /\ [][Next]_vars
(***************************************************************************)
(* The claims.                                                             *)
(***************************************************************************)
Finished == pc \in {"returned", "raised"}

\* The rows of the run's station file, when it could be read.
RunRows ==
    IF arg.station_file \in DOMAIN Files
    THEN Files[arg.station_file]
    ELSE <<>>

\* Station i's slant range is smaller than |drop_depth - trans_depth|.
SlantTooShort(i) ==
    SlantRange(RunRows[i][5], arg.sound_speed)
        < Abs(arg.drop_depth - arg.trans_depth)

\* C1: in a survey run, once the ranges are computed, a station whose slant
\* range is smaller than the depth difference has made the run signal an
\* invalid-range error: no NaN range reaches calculate_anchor_position and
\* no result computed from one is returned.
C1_InvalidRangeSignalled ==
    (/\ arg.fn \in {"run_survey", "main"}
     /\ pc \notin {"call", "loaded"}
     /\ \E i \in 1 .. Len(RunRows) : SlantTooShort(i))
        => (pc = "raised" /\ err = "InvalidRangeError")

\* |degrees| + minutes/60 + seconds/3600, in units of 1e-7 degree.
UnsignedDd(degrees, minutes, seconds) ==
    Abs(degrees) * Deg + MulDiv(minutes, Deg, 60 * Milli)
                       + MulDiv(seconds, Deg, 3600 * Milli)

\* C2: with a hemisphere letter, dms_to_dd returns
\* |degrees| + minutes/60 + seconds/3600 for N and E and its negation for S
\* and W, so that a negative degrees input gives what its absolute value
\* gives.
C2_SignedByHemisphere ==
    (/\ pc = "returned"
     /\ arg.fn = "dms_to_dd"
     /\ arg.direction \in {"N", "S", "E", "W"})
        => ret = (IF arg.direction \in {"N", "E"} THEN 1 ELSE 0 - 1)
                    * UnsignedDd(arg.degrees, arg.minutes, arg.seconds)

\* C3: with the hemisphere omitted, negative degrees give a negative
\* result and non-negative degrees a non-negative one.
C3_SignFromDegrees ==
    (/\ pc = "returned"
     /\ arg.fn = "dms_to_dd"
     /\ arg.direction = "None")
        => /\ arg.degrees < 0 => ret < 0
           /\ arg.degrees >= 0 => ret >= 0

\* Three stations that are not on one line.
NonCollinear(sx, sy) ==
    /\ Len(sx) = 3
    /\ ((sx[2] - sx[1]) \div M) * ((sy[3] - sy[1]) \div M)
          # ((sx[3] - sx[1]) \div M) * ((sy[2] - sy[1]) \div M)

NoNoise == <<0, 0, 0, 0>>

\* The case of C4: three non-collinear stations, ranges computed from the
\* true anchor, default tol and max_iter, and the solver has returned.
ExactCase ==
    /\ pc = "returned"
    /\ arg.fn = "calculate_anchor_position"
    /\ NonCollinear(x, y)
    /\ arg.noise = NoNoise
    /\ tol = DefaultTol
    /\ max_iter = DefaultMaxIter

\* C4: from three non-collinear stations and ranges computed from a true
\* anchor, with the default tol and max_iter, the solver returns an
\* estimate within 1e-3 m of the true anchor in each coordinate and an
\* iteration count below 20.
C4_ExactRangesRecoverAnchor ==
    ExactCase =>
        /\ ~ret.xi.nan
        /\ ~ret.yi.nan
        /\ Abs(ret.xi.v - arg.anchor[1] * M) <= M \div 1000
        /\ Abs(ret.yi.v - arg.anchor[2] * M) <= M \div 1000
        /\ ret.iteration < 20

\* The test's scenario, solved: stations (0,0), (100,0), (0,100) and the
\* true anchor (50,50).
C4_Witness ==
    /\ ExactCase
    /\ arg.layout = <<<<0, 0>>, <<100, 0>>, <<0, 100>>>>
    /\ arg.anchor = <<50, 50>>
    /\ Abs(ret.xi.v - 50 * M) <= M \div 1000
    /\ Abs(ret.yi.v - 50 * M) <= M \div 1000
    /\ ret.iteration = 1

\* C5: latlon_to_xy and then xy_to_latlon with the same reference, the
\* point within 2 degrees of it, returns the point to within 1e-6 degree
\* in each coordinate.
C5_RoundTrip ==
    (/\ pc = "returned"
     /\ arg.fn = "latlon_to_xy"
     /\ Abs(arg.lat - arg.ref_lat) <= 2 * Deg
     /\ Abs(arg.lon - arg.ref_lon) <= 2 * Deg)
        => /\ Abs(ret[1] - arg.lat) <= Deg \div 10^6
           /\ Abs(ret[2] - arg.lon) <= Deg \div 10^6

\* A point two degrees north and two degrees west of a reference at
\* 35.9511 N has made the round trip.
C5_Witness ==
    /\ pc = "returned"
    /\ arg.fn = "latlon_to_xy"
    /\ arg.ref_lat = 359511000
    /\ arg.lat - arg.ref_lat = 2 * Deg
    /\ arg.lon - arg.ref_lon = 0 - 2 * Deg
    /\ Abs(ret[1] - arg.lat) <= Deg \div 10^6
    /\ Abs(ret[2] - arg.lon) <= Deg \div 10^6

\* Some pass found its step below tol.
Converged == \E k \in 1 .. Len(conv) : conv[k]

\* The first such pass, counted from one.
FirstHit == CHOOSE k \in 1 .. Len(conv) : conv[k] /\ \A j \in 1 .. k - 1 : ~conv[j]

SolverReturned == pc = "returned" /\ arg.fn = "calculate_anchor_position"

C7_CountEqualsCap ==
    (/\ arg.fn = "calculate_anchor_position"
     /\ Finished
     /\ max_iter >= 1
     /\ ~Converged)
        => (pc = "returned" /\ ret.iteration = max_iter)

AddNum(a, b) == IF a.nan \/ b.nan THEN NaN ELSE Num(a.v + b.v)

\* The loop has stopped.
LoopOver == pc \in {"loop_exit", "returned", "raised"}

\* C8: the loop terminates.  Each pass adds its step to the estimate; the
\* loop stops at the first pass whose step is below tol and, when there is
\* none, after exactly max_iter passes; it never runs more than max_iter
\* passes.
C8_LoopTerminates ==
    /\ [](npass <= max_iter)
    /\ [](LoopOver =>
             IF Converged
             THEN npass = FirstHit /\ Len(conv) = npass
             ELSE npass = max_iter /\ Len(conv) = npass)
    /\ [][npass' = npass + 1 =>
             (xi' = AddNum(xi, xx'[1]) /\ yi' = AddNum(yi, xx'[2]))]_vars
    /\ <>Finished

\* A call with the default max_iter has run all its passes without
\* convergence.
C8_Witness ==
    /\ pc = "loop_exit"
    /\ max_iter = DefaultMaxIter
    /\ npass = max_iter
    /\ ~Converged

\* C9: rms_error is never negative, and is 0 exactly when the modelled
\* range of every station equals its observed range.
C9_RmsZeroIffExact ==
    (pc = "returned" /\ arg.fn = "rms_error")
        => /\ ret >= 0
           /\ ret = 0 <=> \A i \in 1 .. Len(arg.x) :
                             ModelRange(arg.p, arg.x, arg.y, i) = arg.dist[i]

\* rms_error has returned 0 for three stations at 5 m, 5 m and 10 m.
C9_Witness ==
    /\ pc = "returned"
    /\ arg.fn = "rms_error"
    /\ Len(arg.x) = 3
    /\ arg.dist = <<5 * M, 5 * M, 10 * M>>
    /\ ret = 0

\* C10: calculate_fallback gives the same value with its two points
\* exchanged, a positive one when they differ and zero when they coincide.
C10_FallbackSymmetric ==
    (pc = "returned" /\ arg.fn = "calculate_fallback")
        => /\ ret[1] = ret[2]
           /\ arg.anchor # arg.drop => ret[1] > 0
           /\ arg.anchor = arg.drop => ret[1] = 0

\* Both calls made for the test's two points, which differ.
C10_Witness ==
    /\ pc = "returned"
    /\ arg.fn = "calculate_fallback"
    /\ arg.anchor = <<359515000, 0 - 751301000>>
    /\ arg.drop = <<359511000, 0 - 751303000>>
    /\ ret[1] = ret[2]
    /\ ret[1] > 0
====
